---- MODULE Spec2Model ----
(***************************************************************************)
(* The job submission / status polling / result retrieval workflow of the  *)
(* document-processing front end: the Workflow Coordinator (App component, *)
(* src/unnamed/part_001), the Status Poller (JobStatus.vue) and the Result *)
(* Retriever (ResultDownload.vue, src/unnamed/part_000).                   *)
(*                                                                         *)
(* Execution is a single-threaded event loop: every action below is one    *)
(* callback run to completion (a click handler, an interval tick, the      *)
(* continuation of an awaited HTTP call), together with the re-render it   *)
(* causes (v-if mount / unmount of JobStatus and its lifecycle hooks).     *)
(***************************************************************************)
EXTENDS Integers, Sequences, FiniteSets, TLC

\* ---- bounds of the model ------------------------------------------------
MaxJobs == 2
\* job identifiers the backend hands out (successful submissions); also the
\* number of POST /api/process requests outstanding at a time
MaxInflight == 2
\* GET /api/status requests outstanding at a time

MaxItems == 3
\* items of a result manifest shown to the Result Retriever
MaxUnits == 12
\* the largest count a progress value "c/t" reports
MaxDigits == 5
\* base-1024 digits of a file size

\* ---- values ---------------------------------------------------------------
Null == 0
\* ref(null): no job identifier; also: no JobStatus instance

\* a JavaScript undefined, and what a template literal prints for it
Undefined == "undefined"

\* ---- text ------------------------------------------------------------------
\* A string is the sequence of its characters.
Digit == <<"0", "1", "2", "3", "4", "5", "6", "7", "8", "9">>

\* String(n) of a non-negative integer n
RECURSIVE DecimalText(_)
DecimalText(n) ==
  IF n < 10 THEN <<Digit[n + 1]>>
  ELSE DecimalText(n \div 10) \o <<Digit[(n % 10) + 1]>>

NaN == -1

IsDigit(c) == \E d \in DOMAIN Digit : Digit[d] = c

DigitValue(c) == (CHOOSE d \in DOMAIN Digit : Digit[d] = c) - 1

RECURSIVE DigitsValue(_)
DigitsValue(t) ==
  IF t = <<>> THEN 0
  ELSE DigitsValue(SubSeq(t, 1, Len(t) - 1)) * 10 + DigitValue(t[Len(t)])

\* Number(t) of a string t: 0 for the empty string, the value of a string of
\* decimal digits, NaN for a string with any other character
Number(t) ==
  IF \E x \in DOMAIN t : ~IsDigit(t[x]) THEN NaN ELSE DigitsValue(t)

\* t.split(sep)
RECURSIVE Split(_, _)
Split(t, sep) ==
  IF \A x \in DOMAIN t : t[x] # sep THEN <<t>>
  ELSE LET p == CHOOSE x \in DOMAIN t :
                  t[x] = sep /\ \A y \in 1..(x - 1) : t[y] # sep
       IN <<SubSeq(t, 1, p - 1)>> \o Split(SubSeq(t, p + 1, Len(t)), sep)

\* the progress "N/M" as the backend writes it
ProgressText(c, t) == DecimalText(c) \o <<"/">> \o DecimalText(t)

JobIds == 1..MaxJobs

\* JobStatus instances: one is created per mount, and a mount needs a new job
Inst == 1..MaxJobs

FileSelections == {<<>>, <<"a.docx">>}

\* the statuses of a response ('queued' is handled exactly as 'processing')
Statuses == {"processing", "completed", "failed"}

\* the progress "N/M" the backend reports with a status
ProgressOf(st) ==
  IF st = "completed" THEN ProgressText(2, 2) ELSE ProgressText(1, 2)

\* the result manifests the backend can produce for job j: n items, each
\* identified by its job and its place in the manifest
ManifestLengths == {0, 2}

ManifestsOf(j) == {[x \in 1..n |-> [job |-> j, item |-> x]] : n \in ManifestLengths}

\* status.value before the first response: ref(null)
NoStatus == [status |-> "none", progress |-> <<>>, results |-> <<>>]

NoEvent == [kind |-> "init", status |-> "none", wrote |-> "none"]

\* nothing rendered or downloaded yet
NoView == [fn |-> "none"]

VARIABLES
  files,            \* Coordinator: pending file selection
  jobId,            \* Coordinator: active job identifier, or Null
  completedJobId,   \* Coordinator: completed job identifier, or Null
  results,          \* Coordinator: result manifest
  posts,            \* number of POST /api/process requests in flight
  nextJob,          \* backend: next job identifier to hand out
  manifest,         \* backend: the result manifest of every job
  cur,              \* the mounted JobStatus instance, or Null
  nInst,            \* JobStatus instances created so far
  status,           \* status.value of the mounted instance
  timers,           \* the instances whose interval (polling.value) is scheduled
  cycleJob,         \* the job the mounted instance was mounted for
  inflight,         \* GET /api/status requests in flight, in the order issued
  emitAfterUnmount, \* does the runtime still call listeners of an unmounted instance
  emits,            \* per job: 'completed' events handled by the Coordinator
  overtaken,        \* how many of the oldest requests in flight were issued
                    \* before a request whose response the mounted instance
                    \* has already handled
  lastEvent,        \* the callback that ran last: its kind ("ui": a click or
                    \* a tick), the status it received, and whether it
                    \* assigned the status.value of the mounted instance or
                    \* of an unmounted one
  view              \* the last thing the view layer computed: what a render
                    \* of ResultDownload or JobStatus shows, or the link a
                    \* download click followed

\* An unmounted instance lives on only in the continuations of its requests
\* in flight (inflight[n].inst): nothing reads its status.value again, so
\* the model keeps status for the mounted instance alone, and lastEvent.wrote
\* records an assignment to the status.value of an unmounted one.

coord == <<files, jobId, completedJobId, results>>
poller == <<cur, nInst, status, timers, cycleJob>>
net == <<posts, nextJob, manifest, inflight>>
vars == <<files, jobId, completedJobId, results, posts, nextJob, manifest,
          cur, nInst, status, timers, cycleJob, inflight, emitAfterUnmount,
          emits, overtaken, lastEvent, view>>

Event(k, s, w) == [kind |-> k, status |-> s, wrote |-> w]

Init ==
  /\ files = <<>>
  /\ jobId = Null
  /\ completedJobId = Null
  /\ results = <<>>
  /\ posts = 0
  /\ nextJob = 1
  /\ manifest = [j \in JobIds |-> <<>>]
  /\ cur = Null
  /\ nInst = 0
  /\ status = NoStatus
  /\ timers = {}
  /\ cycleJob = Null
  /\ inflight = <<>>
  /\ emitAfterUnmount \in BOOLEAN
  /\ emits = [j \in JobIds |-> 0]
  /\ overtaken = 0
  /\ lastEvent = NoEvent
  /\ view = NoView

\* ---- Coordinator ----------------------------------------------------------

\* handleFiles: the FileUploader reports a selection
handleFiles(selectedFiles) ==
  /\ files' = selectedFiles
  /\ lastEvent' = Event("ui", "none", "none")
  /\ UNCHANGED <<jobId, completedJobId, results, poller, net,
                 emitAfterUnmount, emits>>

\* uploadFiles up to its await: the form data is built from the current
\* selection, whatever it is, and the POST is issued
uploadFilesStart ==
  /\ posts < MaxJobs
  /\ posts' = posts + 1
  /\ lastEvent' = Event("ui", "none", "none")
  /\ UNCHANGED <<coord, poller, nextJob, manifest, inflight,
                 emitAfterUnmount, emits>>

\* uploadFiles after its await, success: the backend created job j; jobId is
\* assigned and the selection cleared.  Re-render: JobStatus is mounted when
\* jobId was null (onMounted: checkStatus() and setInterval), and only gets
\* a new prop when it is mounted already.
uploadFilesSuccess(m) ==
  LET j == nextJob
      i == nInst + 1
      mount == jobId = Null
  IN
  /\ posts > 0
  /\ nextJob <= MaxJobs
  /\ m \in ManifestsOf(j)
  /\ mount => Len(inflight) < MaxInflight
  /\ posts' = posts - 1
  /\ nextJob' = nextJob + 1
  /\ manifest' = [manifest EXCEPT ![j] = m]
  /\ jobId' = j
  /\ files' = <<>>
  /\ IF mount
       THEN /\ cur' = i
            /\ nInst' = i
            /\ status' = NoStatus
            /\ timers' = timers \cup {i}
            /\ cycleJob' = j
            /\ inflight' = Append(inflight, [inst |-> i, job |-> j])
       ELSE UNCHANGED <<cur, nInst, status, timers, cycleJob, inflight>>
  /\ lastEvent' = Event("uploadSuccess", "none", "none")
  /\ UNCHANGED <<completedJobId, results, emitAfterUnmount, emits>>

\* uploadFilesFail with the selection cleared on failure as on success
uploadFilesFail_ClearsFiles ==
  /\ posts > 0
  /\ posts' = posts - 1
  /\ files' = <<>>
  /\ lastEvent' = Event("uploadFailed", "none", "none")
  /\ UNCHANGED <<jobId, completedJobId, results, poller, nextJob, manifest,
                 inflight, emitAfterUnmount, emits>>

\* uploadFiles after its await, failure: console.error and alert only
uploadFilesFail ==
  /\ posts > 0
  /\ posts' = posts - 1
  /\ lastEvent' = Event("uploadFailed", "none", "none")
  /\ UNCHANGED <<coord, poller, nextJob, manifest, inflight,
                 emitAfterUnmount, emits>>

\* resetProcessor without the line that clears completedJobId
resetProcessor_KeepsCompletedJobId ==
  /\ Len(results) > 0
  /\ files' = <<>>
  /\ jobId' = Null
  /\ results' = <<>>
  /\ cur' = Null
  /\ status' = NoStatus
  /\ timers' = timers \ {cur}
  /\ cycleJob' = Null
  /\ lastEvent' = Event("reset", "none", "none")
  /\ UNCHANGED <<completedJobId, nInst, net, emitAfterUnmount, emits>>

\* resetProcessor: the 'reset' event of ResultDownload, which is rendered
\* only while results is non-empty.  Re-render: a mounted JobStatus is
\* unmounted (onUnmounted clears its interval).
resetProcessor ==
  /\ Len(results) > 0
  /\ files' = <<>>
  /\ jobId' = Null
  /\ completedJobId' = Null
  /\ results' = <<>>
  /\ cur' = Null
  /\ status' = NoStatus
  /\ timers' = timers \ {cur}
  /\ cycleJob' = Null
  /\ lastEvent' = Event("reset", "none", "none")
  /\ UNCHANGED <<nInst, net, emitAfterUnmount, emits>>

\* ---- Status Poller --------------------------------------------------------

\* the requests in flight once the n-th of them has been answered
Remove(q, n) == [x \in 1..(Len(q) - 1) |-> IF x < n THEN q[x] ELSE q[x + 1]]

\* props.jobId of a mounted instance is the Coordinator's jobId
PropsJobId(i) == jobId

\* an interval tick of instance i: checkStatus up to its await issues
\* GET /api/status/{props.jobId}
Tick(i) ==
  /\ i \in timers
  /\ Len(inflight) < MaxInflight
  /\ inflight' = Append(inflight, [inst |-> i, job |-> PropsJobId(i)])
  /\ lastEvent' = Event("ui", "none", "none")
  /\ UNCHANGED <<coord, poller, posts, nextJob, manifest,
                 emitAfterUnmount, emits>>

\* the body of a status response for job j
ResponseData(j, st) ==
  [status |-> st, progress |-> ProgressOf(st),
   results |-> IF st = "completed" THEN manifest[j] ELSE <<>>]

\* is emit('completed', ...) of instance i delivered to handleCompleted
Delivered(i, st) ==
  st = "completed" /\ (i = cur \/ emitAfterUnmount)

\* checkStatus after its await, success, in the instance that issued the
\* n-th request in flight: the response is stored in status.value; on
\* 'completed' the instance's interval is cleared and 'completed' is emitted.
\* The Coordinator's handleCompleted stores the manifest, copies jobId to
\* completedJobId and clears jobId.  Re-render: a mounted JobStatus is
\* unmounted (onUnmounted clears its interval).
checkStatusOk(n, st) ==
  LET r == inflight[n]
      i == r.inst
      d == ResponseData(r.job, st)
      deliver == Delivered(i, st)
      cleared == IF st = "completed" THEN timers \ {i} ELSE timers
  IN
  /\ inflight' = Remove(inflight, n)
  /\ IF deliver
       THEN /\ results' = d.results
            /\ completedJobId' = jobId
            /\ jobId' = Null
            /\ emits' = [emits EXCEPT ![r.job] = @ + 1]
            /\ cur' = Null
            /\ status' = NoStatus
            /\ timers' = cleared \ {cur}
            /\ cycleJob' = Null
       ELSE /\ status' = IF i = cur THEN d ELSE status
            /\ timers' = cleared
            /\ UNCHANGED <<results, completedJobId, jobId, emits, cur, cycleJob>>
  /\ lastEvent' = Event("statusOk", st, IF i = cur THEN "mounted" ELSE "unmounted")
  /\ UNCHANGED <<files, nInst, posts, nextJob, manifest, emitAfterUnmount>>

\* checkStatusError with the interval cleared in the catch block
checkStatusError_StopsPolling(n) ==
  /\ inflight' = Remove(inflight, n)
  /\ timers' = timers \ {inflight[n].inst}
  /\ lastEvent' = Event("statusError", "none", "none")
  /\ UNCHANGED <<coord, cur, nInst, status, cycleJob, posts, nextJob, manifest,
                 emitAfterUnmount, emits>>

\* checkStatus after its await, failure: console.error only
checkStatusError(n) ==
  /\ inflight' = Remove(inflight, n)
  /\ lastEvent' = Event("statusError", "none", "none")
  /\ UNCHANGED <<coord, poller, posts, nextJob, manifest,
                 emitAfterUnmount, emits>>

\* the issue order of the requests in flight once the n-th of them has been
\* answered (ok: by a response, not a transport error): a response handled by
\* the mounted instance overtakes every request issued before it; an unmount
\* ends the cycle
Overtake(n, ok) ==
  IF cur' = Null THEN 0
  ELSE IF ok /\ inflight[n].inst = cur /\ n > overtaken THEN n - 1
  ELSE IF n <= overtaken THEN overtaken - 1
  ELSE overtaken

\* an interval of some instance fires
IntervalTick == (\E i \in Inst : Tick(i)) /\ UNCHANGED <<overtaken, view>>

\* the n-th request in flight is answered with status st
StatusResponse(n, st) ==
  checkStatusOk(n, st) /\ overtaken' = Overtake(n, TRUE) /\ UNCHANGED view

\* the n-th request in flight fails
StatusFailure(n) ==
  checkStatusError(n) /\ overtaken' = Overtake(n, FALSE) /\ UNCHANGED view

Next ==
  \/ (\E s \in FileSelections : handleFiles(s)) /\ UNCHANGED <<overtaken, view>>
  \/ uploadFilesStart /\ UNCHANGED <<overtaken, view>>
  \/ (\E m \in ManifestsOf(nextJob) : uploadFilesSuccess(m))
       /\ UNCHANGED <<overtaken, view>>
  \/ uploadFilesFail /\ UNCHANGED <<overtaken, view>>
  \/ resetProcessor /\ overtaken' = 0 /\ UNCHANGED view
  \/ IntervalTick
  \/ \E n \in DOMAIN inflight : \E st \in Statuses : StatusResponse(n, st)
  \/ \E n \in DOMAIN inflight : StatusFailure(n)

Spec == Init /\ [][Next]_vars

\* the same program on a runtime that drops the events an unmounted
\* component instance emits
InitEmitGuarded == Init /\ emitAfterUnmount = FALSE

SpecEmitGuarded == InitEmitGuarded /\ [][Next]_vars

\* Scheduling: a scheduled interval keeps firing (setInterval); every request
\* in flight is eventually settled, by a response or by an error (axios
\* resolves or rejects); and the backend does not withhold 'completed' for
\* ever from the requests the mounted instance makes for the active job.
ActiveCompleted ==
  \E n \in DOMAIN inflight :
    /\ inflight[n].inst = cur
    /\ inflight[n].job = jobId
    /\ StatusResponse(n, "completed")

Settled ==
  \E n \in DOMAIN inflight :
    StatusFailure(n) \/ \E st \in Statuses : StatusResponse(n, st)

Fairness ==
  /\ WF_vars(IntervalTick)
  /\ WF_vars(Settled)
  /\ SF_vars(ActiveCompleted)

SpecFair == InitEmitGuarded /\ [][Next]_vars /\ Fairness

\* ---- the view layer: JobStatus progress bar, Result Retriever -------------

\* everything but view
workflow == <<files, jobId, completedJobId, results, posts, nextJob, manifest,
              cur, nInst, status, timers, cycleJob, inflight, emitAfterUnmount,
              emits, overtaken, lastEvent>>

\* JavaScript truthiness of an optional string
Truthy(v) == v # Undefined /\ v # ""

\* a percentage completed / total * 100, kept as the exact fraction num / den
Percent(n, d) == [num |-> n, den |-> d]

\* progressPercentage capped at 100
progressPercentage_Clamped(st) ==
  IF st = NoStatus \/ st.progress = <<>> THEN Percent(0, 1)
  ELSE LET parts == Split(st.progress, "/")
           completed == Number(parts[1])
           total == IF Len(parts) >= 2 THEN Number(parts[2]) ELSE NaN
       IN IF completed = NaN THEN Percent(NaN, 1)
          ELSE IF total # NaN /\ total > 0
            THEN (IF completed > total THEN Percent(100, 1)
                  ELSE Percent(completed * 100, total))
          ELSE Percent(0, 1)

\* the computed progressPercentage of a JobStatus whose status.value is st
progressPercentage(st) ==
  IF st = NoStatus \/ st.progress = <<>> THEN Percent(0, 1)
  ELSE LET parts == Split(st.progress, "/")
           completed == Number(parts[1])
           total == IF Len(parts) >= 2 THEN Number(parts[2]) ELSE NaN
       IN IF completed = NaN THEN Percent(NaN, 1)
          ELSE IF total # NaN /\ total > 0 THEN Percent(completed * 100, total)
          ELSE Percent(0, 1)

\* A file size is the sequence of its base-k digits, most significant first
\* (<<>>: no size reported); the sizes drawn have zero digits after the
\* second, so that bytes / k^i is (bytes[1] * k + bytes[2]) / k exactly.
k == 1024

sizes == <<"Bytes", "KB", "MB", "GB">>

\* Math.round(n / d) for n >= 0, d > 0
Round(n, d) == (2 * n + d) \div (2 * d)

\* String(h / 100) for a whole number of hundredths h
NumberText(h) ==
  DecimalText(h \div 100) \o
    (IF h % 100 = 0 THEN <<>>
     ELSE IF h % 10 = 0 THEN <<".", Digit[((h % 100) \div 10) + 1]>>
     ELSE <<".", Digit[((h % 100) \div 10) + 1], Digit[(h % 10) + 1]>>)

\* the hundredths Math.round(bytes / Math.pow(k, i) * 100), i the index
\* Math.floor(Math.log(bytes) / Math.log(k)) = Len(bytes) - 1
Hundredths(bytes) ==
  IF Len(bytes) = 1 THEN bytes[1] * 100
  ELSE Round((bytes[1] * k + bytes[2]) * 100, k)

\* formatFileSize: the text is the number followed by ' ' and sizes[i];
\* sizes[i] past the end of the array is undefined
formatFileSize(bytes) ==
  IF bytes = <<>> \/ bytes = <<0>> THEN <<"0", " ", "Bytes">>
  ELSE LET i == Len(bytes) - 1
       IN NumberText(Hundredths(bytes)) \o
            <<" ", IF i + 1 \in DOMAIN sizes THEN sizes[i + 1] ELSE Undefined>>

\* hasErrors looking at the first item only
hasErrors_FirstItemOnly == results # <<>> /\ Truthy(results[1].error)

\* hasErrors: props.results.some(r => r.error)
hasErrors == \E x \in DOMAIN results : Truthy(results[x].error)

\* v-if of the 'Download All as ZIP' button
DownloadAllOffered == Len(results) > 1 /\ ~hasErrors

\* v-else of the per-item Download button of the item at v-for index
DownloadOffered(index) == ~Truthy(results[index + 1].error)

\* ${props.jobId} in a template literal
JobIdText(j) == IF j = Null THEN <<"n", "u", "l", "l">> ELSE DecimalText(j)

\* a render of ResultDownload (v-if="results.length")
renderResults ==
  /\ Len(results) > 0
  /\ view' = [fn |-> "renderResults",
              downloadAll |-> DownloadAllOffered,
              download |-> [x \in DOMAIN results |-> DownloadOffered(x - 1)],
              size |-> [x \in DOMAIN results |-> formatFileSize(results[x].size)]]
  /\ UNCHANGED workflow

\* downloadFile with the item's position counted from 1 in the URL
downloadFile_UsesPosition(index) ==
  /\ index \in 0..(Len(results) - 1)
  /\ DownloadOffered(index)
  /\ view' = [fn |-> "downloadFile", index |-> index,
              href |-> <<"api", "download", JobIdText(completedJobId),
                         DecimalText(index + 1)>>]
  /\ UNCHANGED workflow

\* a click on the Download button of the item at v-for index: downloadFile
downloadFile(index) ==
  /\ index \in 0..(Len(results) - 1)
  /\ DownloadOffered(index)
  /\ view' = [fn |-> "downloadFile", index |-> index,
              href |-> <<"api", "download", JobIdText(completedJobId),
                         DecimalText(index)>>]
  /\ UNCHANGED workflow

\* a click on 'Download All as ZIP': downloadAll
downloadAll ==
  /\ Len(results) > 0
  /\ DownloadAllOffered
  /\ view' = [fn |-> "downloadAll",
              href |-> <<"api", "download", JobIdText(completedJobId)>>]
  /\ UNCHANGED workflow

\* a render of the mounted JobStatus
renderStatus ==
  /\ cur # Null
  /\ view' = [fn |-> "progressPercentage", percent |-> progressPercentage(status)]
  /\ UNCHANGED workflow

\* the error of a result item: none, empty, or a message
Errors == {Undefined, "", "conversion failed"}

ViewItem(j, x, e, b) == [job |-> j, item |-> x, error |-> e, size |-> b]

\* manifests of job j whose items may carry an error
ErrorManifests(j) ==
  UNION {{[x \in 1..n |-> ViewItem(j, x, e[x], <<>>)] : e \in [1..n -> Errors]}
           : n \in 0..MaxItems}

\* file sizes: missing, 0, and one or two leading digits followed by zeros
SizeInputs ==
  {<<>>, <<0>>}
    \cup {<<d>> : d \in {1, 512, 1023}}
    \cup {<<d[1], d[2]>> \o [x \in 1..n |-> 0] :
            d \in {1, 512, 1023} \X {0, 512, 1023}, n \in 0..(MaxDigits - 2)}

\* manifests of job j of one item with a size
SizeManifests(j) == {<<ViewItem(j, 1, Undefined, b)>> : b \in SizeInputs}

\* the progress values of a status response: none, or "c/t"
ProgressInputs ==
  {<<>>} \cup {ProgressText(c, t) : c \in 0..MaxUnits, t \in 0..MaxUnits}

\* the Coordinator after job j completed with manifest m
ResultsShown(j, m) ==
  /\ files = <<>>
  /\ jobId = Null
  /\ completedJobId = j
  /\ results = m
  /\ posts = 0
  /\ nextJob = j + 1
  /\ manifest = [x \in JobIds |-> IF x = j THEN m ELSE <<>>]
  /\ cur = Null
  /\ nInst = j
  /\ status = NoStatus
  /\ timers = {}
  /\ cycleJob = Null
  /\ inflight = <<>>
  /\ emits = [x \in JobIds |-> IF x <= j THEN 1 ELSE 0]
  /\ overtaken = 0
  /\ lastEvent = Event("statusOk", "completed", "mounted")

\* the status.value of a mounted JobStatus: null before the first response,
\* then the last response, whose progress is none or "c/t"
StatusInputs ==
  {NoStatus} \cup {[status |-> "processing", progress |-> p, results |-> <<>>] :
                     p \in ProgressInputs}

\* job 1 being polled with nothing in flight: its last request failed
\* (status.value still null) or was answered with st
StatusShown(st) ==
  /\ files = <<>>
  /\ jobId = 1
  /\ completedJobId = Null
  /\ results = <<>>
  /\ posts = 0
  /\ nextJob = 2
  /\ manifest = [x \in JobIds |-> <<>>]
  /\ cur = 1
  /\ nInst = 1
  /\ status = st
  /\ timers = {1}
  /\ cycleJob = 1
  /\ inflight = <<>>
  /\ emits = [x \in JobIds |-> 0]
  /\ overtaken = 0
  /\ lastEvent = IF st = NoStatus THEN Event("statusError", "none", "none")
                 ELSE Event("statusOk", "processing", "mounted")

InitView ==
  /\ emitAfterUnmount \in BOOLEAN
  /\ view = NoView
  /\ \/ \E j \in JobIds : \E m \in ErrorManifests(j) \cup SizeManifests(j) :
          ResultsShown(j, m)
     \/ \E st \in StatusInputs : StatusShown(st)

NextView ==
  \/ renderResults
  \/ \E index \in 0..(MaxItems - 1) : downloadFile(index)
  \/ downloadAll
  \/ renderStatus

SpecView == InitView /\ [][NextView]_vars

\* ---- the steps the claims speak about ------------------------------------

\* this step handled the response to the n-th request in flight
Answered(n) == n \in DOMAIN inflight /\ inflight' = Remove(inflight, n)

\* this step applied a status response to the n-th request in flight
AppliedOk(n) == Answered(n) /\ lastEvent'.kind = "statusOk"

\* this step ran handleCompleted with the manifest of job j
Completed(j) == emits'[j] > emits[j]

\* ---- claims ---------------------------------------------------------------

\* C1: once a JobStatus instance is torn down, no status response resolving
\* afterwards assigns its status.value (nor emits 'completed'), and no
\* interval of a torn-down instance stays scheduled.
C1_TornDownPollerIsInert ==
  /\ lastEvent.wrote # "unmounted"
  /\ timers \subseteq {cur}

\* C2: when a status response for job j reports 'completed', afterwards the
\* manifest of j has been handed to the Coordinator exactly once and no
\* interval polls j any more.
C2_CompletedEmitsOnceAndStops ==
  [][\A n \in DOMAIN inflight :
       (AppliedOk(n) /\ lastEvent'.status = "completed")
         => /\ emits'[inflight[n].job] = 1
            /\ ~(timers' # {} /\ jobId' = inflight[n].job)]_vars

\* C3: handleCompleted, run for the manifest of job j, leaves jobId null,
\* completedJobId = j and results = the manifest of j.
C3_CompletionMovesJobId ==
  [][\A j \in JobIds :
       Completed(j) => /\ jobId' = Null
                       /\ completedJobId' = j
                       /\ results' = manifest[j]]_vars

\* C4: at most one poll cycle is active, and the requests of the mounted
\* instance are all for the job it was mounted for (a cycle started for one
\* job never polls another).
C4_OneCyclePerJob ==
  /\ Cardinality(timers) <= 1
  /\ \A n \in DOMAIN inflight :
       inflight[n].inst = cur => inflight[n].job = cycleJob

\* C5: a status response for job A that arrives when the active job is
\* another job B changes nothing: not status, not the interval, not the
\* Coordinator's state, and no 'completed' is handled.
C5_SupersededResponseIgnored ==
  [][\A n \in DOMAIN inflight :
       (AppliedOk(n) /\ jobId # Null /\ inflight[n].job # jobId)
         => /\ UNCHANGED <<status, timers, emits>>
            /\ UNCHANGED coord
            /\ lastEvent'.wrote = "none"]_vars

\* C6: uploadFiles issues no POST /api/process while the selection is empty.
C6_EmptySelectionNotPosted ==
  [][posts' > posts => files # <<>>]_vars

\* C7: a failed submission only surfaces the error: selection, jobId,
\* completedJobId, results, the poller and its requests are unchanged, so
\* the same selection can be submitted again.
C7_FailedSubmissionChangesNothing ==
  [][lastEvent'.kind = "uploadFailed"
       => /\ UNCHANGED coord
          /\ UNCHANGED <<cur, nInst, status, timers, inflight>>
          /\ posts' < MaxJobs]_vars

\* C7 witness: a submission has just failed with a file selection pending
\* and a job being polled
C7_Witness ==
  /\ lastEvent.kind = "uploadFailed"
  /\ files # <<>>
  /\ jobId # Null

\* C8: once the mounted instance has processed a response with status
\* 'failed', its interval is no longer scheduled.
C8_FailedStopsPolling ==
  [][\A n \in DOMAIN inflight :
       (AppliedOk(n) /\ lastEvent'.status = "failed" /\ inflight[n].inst = cur)
         => timers' = {}]_vars

\* C9: a failed status request changes neither status (with its progress)
\* nor the Coordinator's state, emits nothing and leaves the interval of
\* the mounted instance scheduled.
C9_TransportErrorTolerated ==
  [][lastEvent'.kind = "statusError"
       => /\ UNCHANGED <<status, emits, cur, cycleJob>>
          /\ UNCHANGED coord
          /\ timers' = timers
          /\ (cur # Null => cur \in timers')]_vars

\* C9 witness: the only instance ever mounted, still mounted and polling
\* with a status received earlier, has just had a status request fail
C9_Witness ==
  /\ lastEvent.kind = "statusError"
  /\ nInst = 1
  /\ cur = 1
  /\ cur \in timers
  /\ status.status = "processing"

\* C10: right after resetProcessor the selection is empty, jobId and
\* completedJobId are null, results is empty and no interval is scheduled;
\* and a submission that succeeds while jobId is null (as after a reset)
\* sets jobId to the returned identifier and starts polling it: a mounted
\* instance with its interval scheduled and a request for that job.
C10_ResetClearsLifecycle ==
  [][/\ lastEvent'.kind = "reset"
          => /\ files' = <<>>
             /\ jobId' = Null
             /\ completedJobId' = Null
             /\ results' = <<>>
             /\ cur' = Null
             /\ timers' = {}
     /\ (lastEvent'.kind = "uploadSuccess" /\ jobId = Null)
          => /\ jobId' = nextJob
             /\ cur' # Null
             /\ timers' = {cur'}
             /\ cycleJob' = jobId'
             /\ \E n \in DOMAIN inflight' :
                  inflight'[n] = [inst |-> cur', job |-> jobId']]_vars

\* C10 witness: a reset has just torn down the poller of a second job while
\* the results of the first were shown
C10_Witness ==
  /\ lastEvent.kind = "reset"
  /\ nInst = 2
  /\ emits[1] = 1
  /\ emits[2] = 0
  /\ Len(inflight) > 0


\* C11: a submission started while a completed job's data is held clears
\* completedJobId and results, so in every state an active job (jobId set)
\* is never held together with the identifier or manifest of an earlier job.
C11_NewSubmissionClearsCompleted ==
  ~(jobId # Null /\ completedJobId # Null /\ results # <<>>)

\* C19: a submission response that arrives right after a reset, for a POST
\* issued before that reset, is not adopted: jobId stays null and no
\* JobStatus instance is mounted or polling.
C19_ResponseAfterResetNotAdopted ==
  [][(lastEvent.kind = "reset" /\ posts > 0 /\ lastEvent'.kind = "uploadSuccess")
       => (jobId' = Null /\ cur' = Null /\ timers' = {})]_vars

\* C17: in every reachable state a non-empty results manifest comes with a
\* non-null completedJobId, so ResultDownload never builds a download URL
\* from a null job id.
C17_ResultsImplyCompletedJobId ==
  results # <<>> => completedJobId # Null

\* this step applied, in the mounted instance, the response to the n-th
\* request in flight after the response to a request issued later
AppliedOvertaken(n) ==
  /\ AppliedOk(n)
  /\ inflight[n].inst = cur
  /\ n <= overtaken
  /\ overtaken' = overtaken - 1

\* C16: within one poll cycle (the instance still polls the job it was
\* mounted for) the response to an earlier-issued request that arrives after
\* the response to a later-issued one has been written does not overwrite
\* status.value.
C16_StatusAppliedInIssueOrder ==
  [][\A n \in DOMAIN inflight :
       (AppliedOvertaken(n) /\ cycleJob = jobId /\ lastEvent'.status # "completed")
         => status' = status]_vars

\* job j has reached the results view
InResultsView(j) == completedJobId = j /\ results = manifest[j] /\ emits[j] > 0

\* C18: under the scheduling of SpecFair, a job that has become the active
\* job eventually reaches the results view (its manifest in results, its id
\* in completedJobId), unless a reset or a later submission takes its place.
C18_SubmittedJobReachesResults ==
  \A j \in JobIds :
    [](jobId = j => <>(\/ InResultsView(j)
                       \/ lastEvent.kind = "reset"
                       \/ jobId \notin {j, Null}))

\* the item at place x of the manifest carries a non-empty error
HasError(x) == results[x].error \notin {Undefined, ""}

\* C12: the bulk 'download all' action is offered if and only if the manifest
\* has more than one item and no item carries a non-empty error (and is only
\* triggered then); a manifest of three items of which exactly one has an
\* error hides it.
C12_BulkOfferedIffNoErrors ==
  /\ view.fn = "renderResults" =>
       /\ view.downloadAll <=>
            (Len(results) > 1 /\ \A x \in DOMAIN results : ~HasError(x))
       /\ (Len(results) = 3 /\ Cardinality({x \in DOMAIN results : HasError(x)}) = 1)
            => ~view.downloadAll
  /\ view.fn = "downloadAll" =>
       (Len(results) > 1 /\ \A x \in DOMAIN results : ~HasError(x))

C12_Witness ==
  /\ view.fn = "renderResults"
  /\ Len(results) = 3
  /\ Cardinality({x \in DOMAIN results : HasError(x)}) = 1
  /\ ~view.downloadAll

\* C13: the per-item download action of item i is offered if and only if
\* item i has no error, whatever the other items carry, and triggering it
\* requests /api/download/{job id}/{i} with the completed job's identifier
\* and the index of the item in the manifest.
C13_ItemDownloadOfferedAndAddressed ==
  /\ view.fn = "renderResults" =>
       \A x \in DOMAIN results : view.download[x] <=> ~HasError(x)
  /\ view.fn = "downloadFile" =>
       /\ view.index \in 0..(Len(results) - 1)
       /\ ~HasError(view.index + 1)
       /\ results[view.index + 1].item = view.index + 1
       /\ Len(view.href) = 4
       /\ view.href[1] = "api"
       /\ view.href[2] = "download"
       /\ Number(view.href[3]) = completedJobId
       /\ Number(view.href[4]) = view.index

C13_Witness ==
  /\ view.fn = "downloadFile"
  /\ view.index = 2
  /\ HasError(1)
  /\ completedJobId = 2
  /\ view.href = <<"api", "download", <<"2">>, <<"2">>>>

\* C14: for a progress value "c/t" of non-negative integers the percentage is
\* 0 when t = 0 and c / t * 100 when t > 0, not clamped; with no status or
\* no progress value it is 0.
C14_ProgressPercentage ==
  view.fn = "progressPercentage" =>
    /\ (status = NoStatus \/ status.progress = <<>>) => view.percent = Percent(0, 1)
    /\ \A c \in 0..MaxUnits : \A t \in 0..MaxUnits :
         status.progress = ProgressText(c, t) =>
           IF t = 0 THEN view.percent = Percent(0, 1)
           ELSE /\ view.percent.den > 0
                /\ view.percent.num * t = c * 100 * view.percent.den

C14_Witness ==
  /\ view.fn = "progressPercentage"
  /\ status.progress = <<"1", "2", "/", "5">>
  /\ view.percent = Percent(1200, 5)

\* the unit a rendered size ends with
UnitOf(text) == text[Len(text)]

\* C15: formatFileSize renders 0 and a missing size as '0 Bytes'; for a size
\* b >= 1 the unit is the largest of Bytes, KB, MB, GB whose scale 1024^i is
\* <= b, so a defined unit is produced for every size, and the number is
\* b / 1024^i rounded to two decimals: 1024 is '1 KB', 1536 is '1.5 KB',
\* 1048576 is '1 MB'.
C15_FormatFileSize ==
  view.fn = "renderResults" =>
    \A x \in DOMAIN results :
      LET b == results[x].size
          text == view.size[x]
          u == IF Len(b) < Len(sizes) THEN Len(b) ELSE Len(sizes)
      IN /\ b \in {<<>>, <<0>>} => text = <<"0", " ", "Bytes">>
         /\ b \notin {<<>>, <<0>>} =>
              /\ UnitOf(text) \in {sizes[y] : y \in DOMAIN sizes}
              /\ UnitOf(text) = sizes[u]
              /\ Len(b) <= Len(sizes) =>
                   SubSeq(text, 1, Len(text) - 2) = NumberText(Hundredths(b))
         /\ b = <<1, 0>> => text = <<"1", " ", "KB">>
         /\ b = <<1, 512>> => text = <<"1", ".", "5", " ", "KB">>
         /\ b = <<1, 0, 0>> => text = <<"1", " ", "MB">>

====
